---- MODULE Spec2Model ----
(***************************************************************************)
(* Pakistan Economic Observatory (src/src/App.tsx): the analytical engine  *)
(* calculateCentrality, the threshold filter of App and the ForceGraph     *)
(* component (physics tick, view transform, animation-frame loop).         *)
(*                                                                         *)
(* Numbers.  A JavaScript number is modelled as an exact extended rational *)
(* <<n, d>> in lowest terms with d >= 0: d > 0 is the finite value n/d,    *)
(* <<1, 0>> is Infinity, <<-1, 0>> is -Infinity and <<0, 0>> is NaN, so    *)
(* that x/0 and 0/0 behave as they do in the program.  Rounding of IEEE    *)
(* doubles is not modelled: arithmetic is exact.  The physics of the graph *)
(* works on whole canvas units, rounding every quotient toward zero.       *)
(*                                                                         *)
(* React.  A handler sees the state of the last render of its component.   *)
(* mousedown, mouseup and click are followed by the re-render before the   *)
(* next event; after wheel, mousemove and mouseleave the re-render is a    *)
(* step of its own (Render), so that further events may come first.  A     *)
(* re-render with a new transform object or a new matrix runs the effect   *)
(* of ForceGraph again: its cleanup cancels the requested frame and        *)
(* render() is called at once.                                             *)
(*                                                                         *)
(* The eigenvector array is kept as an integer direction vector u and the  *)
(* sum of squares normSq that the program takes the root of: its entry i   *)
(* is u[i] / sqrt(normSq).                                                 *)
(*                                                                         *)
(* Specifications.  SpecCentrality runs calculateCentrality on one matrix; *)
(* SpecGraph runs a mounted ForceGraph under user events; SpecDriver runs  *)
(* it under the props App hands over; SpecPipeline runs one render of App  *)
(* (filter, centrality, mount); SpecCanvas runs ForceGraph in a container  *)
(* that changes size; SpecLoader runs App's data loading, category select, *)
(* time slider and playback, and SpecLoaderFair adds that every awaited    *)
(* promise of loadData settles.                                            *)
(***************************************************************************)
EXTENDS Integers, Sequences, FiniteSets, TLC

\* ------------------------------------------------------------------ bounds
\* Largest node count of a matrix handed to calculateCentrality.
MaxN == 3
\* The number of cities (nodes) of the graph component.
NumCities == 2
\* The number of user events and of physics updates in one behaviour.
MaxEvents == 3
MaxTicks == 3

\* ----------------------------------------------------------------- numbers
Abs(a) == IF a < 0 THEN -a ELSE a

RECURSIVE GCD(_, _)
GCD(a, b) == IF b = 0 THEN a ELSE GCD(b, a % b)

\* The number n/d (d of either sign, or 0) in canonical form.
Num(n, d) ==
  IF d = 0 THEN <<(IF n > 0 THEN 1 ELSE IF n < 0 THEN -1 ELSE 0), 0>>
  ELSE LET g == GCD(Abs(n), Abs(d))
           s == IF d < 0 THEN -1 ELSE 1
       IN <<(s * n) \div g, (s * d) \div g>>

Whole(n) == <<n, 1>>
Zero == <<0, 1>>
One == <<1, 1>>
Infinity == <<1, 0>>
NaN == <<0, 0>>

IsNaN(a) == a = NaN
IsFinite(a) == a[2] > 0

\* a + b (Infinity + -Infinity and anything with NaN are NaN).
Add(a, b) ==
  IF a[2] = 0 /\ b[2] = 0 THEN (IF a = b THEN a ELSE NaN)
  ELSE IF a[2] = 0 THEN a
  ELSE IF b[2] = 0 THEN b
  ELSE Num(a[1] * b[2] + b[1] * a[2], a[2] * b[2])

Neg(a) == <<-a[1], a[2]>>
Sub(a, b) == Add(a, Neg(b))
Mul(a, b) ==
  IF IsNaN(a) \/ IsNaN(b) THEN NaN ELSE Num(a[1] * b[1], a[2] * b[2])
\* a / b with the program's semantics of x/0, 0/0 and x/Infinity.
Div(a, b) ==
  IF IsNaN(a) \/ IsNaN(b) THEN NaN ELSE Num(a[1] * b[2], a[2] * b[1])

\* Comparisons: every comparison with NaN is false.
Less(a, b) == a[1] * b[2] < b[1] * a[2]
Greater(a, b) == Less(b, a)
LessEq(a, b) == ~IsNaN(a) /\ ~IsNaN(b) /\ ~Less(b, a)
GreaterEq(a, b) == LessEq(b, a)

\* Math.max(a, b) and Math.min(a, b).
MathMax(a, b) == IF IsNaN(a) \/ IsNaN(b) THEN NaN ELSE IF Less(a, b) THEN b ELSE a
MathMin(a, b) == IF IsNaN(a) \/ IsNaN(b) THEN NaN ELSE IF Less(b, a) THEN b ELSE a

\* ------------------------------------------------- calculateCentrality
\* Row and column indices run from 0 as in the source; a matrix is a
\* function [0..n-1 -> [0..n-1 -> number]].
Idx(n) == 0 .. (n - 1)

\* matrix.length
Length(m) == Cardinality(DOMAIN m)

\* Array(n).fill(v)
Fill(n, v) == [i \in Idx(n) |-> v]

\* sum += matrix[i][j] for j = 0 .. upto-1, left to right.
RECURSIVE RowSum(_, _, _)
RowSum(m, i, upto) ==
  IF upto = 0 THEN Zero ELSE Add(RowSum(m, i, upto - 1), m[i][upto - 1])

\* (variant: the self-entry is left out of the sum)
DegreeExcludingSelf(m) ==
  LET n == Length(m)
  IN [i \in Idx(n) |-> Div(Sub(RowSum(m, i, n), m[i][i]), Whole(n - 1))]
\* 1. degree[i] = sum / (n - 1)
DegreeCentrality(m) ==
  LET n == Length(m)
  IN [i \in Idx(n) |-> Div(RowSum(m, i, n), Whole(n - 1))]

\* (variant: every edge costs 1 whatever its weight)
InitDistUnit(m) ==
  LET n == Length(m)
  IN [i \in Idx(n) |-> [j \in Idx(n) |->
        IF Greater(m[i][j], Zero) THEN One
        ELSE IF i = j THEN Zero ELSE Infinity]]
\* The distance transform: dist[i][i] = 0, then for every j (j = i
\* included) with matrix[i][j] > 0, dist[i][j] = 1/matrix[i][j], next = j.
InitDist(m) ==
  LET n == Length(m)
  IN [i \in Idx(n) |-> [j \in Idx(n) |->
        IF Greater(m[i][j], Zero) THEN Div(One, m[i][j])
        ELSE IF i = j THEN Zero ELSE Infinity]]
\* (variant: the table holds the source i instead of the next hop j)
InitNextSource(m) ==
  LET n == Length(m)
  IN [i \in Idx(n) |-> [j \in Idx(n) |->
        IF Greater(m[i][j], Zero) THEN i ELSE -1]]
InitNext(m) ==
  LET n == Length(m)
  IN [i \in Idx(n) |-> [j \in Idx(n) |->
        IF Greater(m[i][j], Zero) THEN j ELSE -1]]

\* One relaxation of Floyd-Warshall on the pair of tables t = [dist, next].
RelaxNoNext(t, k, i, j) ==
  LET via == Add(t.dist[i][k], t.dist[k][j])
  IN IF Less(via, t.dist[i][j])
     THEN [dist |-> [t.dist EXCEPT ![i][j] = via], next |-> t.next]
     ELSE t
Relax(t, k, i, j) ==
  LET via == Add(t.dist[i][k], t.dist[k][j])
  IN IF Less(via, t.dist[i][j])
     THEN [dist |-> [t.dist EXCEPT ![i][j] = via],
           next |-> [t.next EXCEPT ![i][j] = t.next[i][k]]]
     ELSE t

\* The two inner loops for one k, in place: step s = i*n + j.
RECURSIVE FWPass(_, _, _, _)
FWPass(t, n, k, s) ==
  IF s = 0 THEN t
  ELSE LET p == s - 1
       IN Relax(FWPass(t, n, k, p), k, p \div n, p % n)

\* closeness[i] = (sum over j /= i with dist[i][j] finite of 1/dist[i][j]) / (n-1)
RECURSIVE InvSum(_, _, _)
InvSum(d, i, upto) ==
  IF upto = 0 THEN Zero
  ELSE LET j == upto - 1
           s == InvSum(d, i, j)
       IN IF i # j /\ d[i][j] # Infinity THEN Add(s, Div(One, d[i][j])) ELSE s

\* (variant: the inner loop starts at j = 1)
ClosenessSkipFirst(d) ==
  LET n == Length(d)
  IN [i \in Idx(n) |->
        Div(Sub(InvSum(d, i, n), InvSum(d, i, 1)), Whole(n - 1))]
\* (variant: the divisor is the number of nodes reachable from i)
ClosenessByReachable(d) ==
  LET n == Length(d)
  IN [i \in Idx(n) |->
        Div(InvSum(d, i, n),
            Whole(Cardinality({j \in Idx(n) : i # j /\ d[i][j] # Infinity})))]
ClosenessCentrality(d) ==
  LET n == Length(d)
  IN [i \in Idx(n) |-> Div(InvSum(d, i, n), Whole(n - 1))]

\* The walk from i to j over the next-hop table: the sequence of the nodes
\* that get their counter incremented.  The while loop of the source has no
\* hop limit; the model follows it for at most n + 1 hops and reports in
\* "cut" whether the loop was still running then.
RECURSIVE Walk(_, _, _, _)
Walk(nx, curr, j, fuel) ==
  IF curr = j \/ curr = -1 THEN [hit |-> <<>>, cut |-> FALSE, last |-> curr]
  ELSE IF fuel = 0 THEN [hit |-> <<>>, cut |-> TRUE, last |-> curr]
  ELSE LET c == nx[curr][j]
           r == Walk(nx, c, j, fuel - 1)
       IN IF c # -1 /\ c # j
          THEN [r EXCEPT !.hit = <<c>> \o r.hit]
          ELSE r

WalkOf(nx, i, j) == Walk(nx, i, j, Length(nx) + 1)

Occurrences(s, k) == Cardinality({x \in DOMAIN s : s[x] = k})
\* The counters after the pairs (i, j), i /= j, numbered s = i*n + j.
RECURSIVE CountLoop(_, _, _)
CountLoop(nx, n, s) ==
  IF s = 0 THEN Fill(n, 0)
  ELSE LET p == s - 1
           i == p \div n
           j == p % n
           rest == CountLoop(nx, n, p)
       IN IF i = j THEN rest
          ELSE LET w == WalkOf(nx, i, j).hit
               IN [k \in Idx(n) |-> rest[k] + Occurrences(w, k)]

BetweennessCount(nx) == CountLoop(nx, Length(nx), Length(nx) * Length(nx))

\* Math.max(...betweenness): -Infinity for the empty array.
RECURSIVE MaxUpto(_, _)
MaxUpto(c, upto) ==
  IF upto = 0 THEN Neg(Infinity) ELSE MathMax(MaxUpto(c, upto - 1), Whole(c[upto - 1]))

\* const maxBet = Math.max(...betweenness) || 1
MaxBetNoGuard(c) == MaxUpto(c, Length(c))
MaxBet(c) ==
  LET mx == MaxUpto(c, Length(c))
  IN IF mx = Zero \/ IsNaN(mx) THEN One ELSE mx

\* betweenness[i] /= maxBet
NormalizeBetweenness(c) == [i \in DOMAIN c |-> Div(Whole(c[i]), MaxBet(c))]

\* 4. Eigenvector centrality.  An entry of the eigenvector array is
\* u[i] / sqrt(u[0]^2 + ... + u[n-1]^2) for a vector u of natural numbers;
\* the model keeps u.  Array(n).fill(1 / Math.sqrt(n)) is u = (1, ..., 1).
\* The entries of u outgrow machine integers within the 50 iterations, so
\* each is a sequence of base-10000 digits, least significant first, with
\* no leading zero digit (0 is the empty sequence).
BigOne == <<1>>
BigZero == <<>>
Digit(a, d) == IF d <= Len(a) THEN a[d] ELSE 0

RECURSIVE Strip(_)
Strip(a) ==
  IF a = <<>> THEN a
  ELSE IF a[Len(a)] = 0 THEN Strip(SubSeq(a, 1, Len(a) - 1)) ELSE a

RECURSIVE Carry(_, _, _)
Carry(raw, pos, c) ==
  IF pos > Len(raw)
  THEN (IF c = 0 THEN <<>> ELSE <<c % 10000>> \o Carry(raw, pos, c \div 10000))
  ELSE LET x == raw[pos] + c
       IN <<x % 10000>> \o Carry(raw, pos + 1, x \div 10000)

RECURSIVE MaxLen(_, _)
MaxLen(u, upto) ==
  IF upto = 0 THEN 0
  ELSE LET r == MaxLen(u, upto - 1)
       IN IF Len(u[upto - 1]) > r THEN Len(u[upto - 1]) ELSE r

\* Least common denominator of the entries of m, and m scaled to integers
\* (scaling the matrix by a positive factor scales newEv and norm alike).
RECURSIVE LCMOf(_)
LCMOf(S) ==
  IF S = {} THEN 1
  ELSE LET x == CHOOSE y \in S : TRUE
           r == LCMOf(S \ {x})
       IN (x * r) \div GCD(x, r)
Denominators(m) == {m[i][j][2] : i \in DOMAIN m, j \in DOMAIN m}
Scaled(m) ==
  LET l == LCMOf(Denominators(m))
  IN [i \in DOMAIN m |-> [j \in DOMAIN m |-> m[i][j][1] * (l \div m[i][j][2])]]

\* newEv[i] += matrix[i][j] * eigenvector[j], digit by digit, for j < upto.
RECURSIVE DotDigit(_, _, _, _, _)
DotDigit(im, u, i, d, upto) ==
  IF upto = 0 THEN 0
  ELSE DotDigit(im, u, i, d, upto - 1) + im[i][upto - 1] * Digit(u[upto - 1], d)

\* The product with the inner loop stopping at j <= i.
MatVecLower(im, u) ==
  LET n == Length(u)
      w == MaxLen(u, n)
  IN [i \in Idx(n) |->
        Strip(Carry([d \in 1 .. w |-> DotDigit(im, u, i, d, i + 1)], 1, 0))]

\* newEv = Array(n).fill(0), then the double loop over i and j.
MatVec(im, u) ==
  LET n == Length(u)
      w == MaxLen(u, n)
  IN [i \in Idx(n) |->
        Strip(Carry([d \in 1 .. w |-> DotDigit(im, u, i, d, n)], 1, 0))]

\* One iteration: newEv = matrix * eigenvector; norm = sqrt(sum of newEv^2);
\* if (norm > 0) eigenvector = newEv / norm.
PowerStepNoGuard(im, u) == MatVec(im, u)
PowerStep(im, u) ==
  LET newEv == MatVec(im, u)
  IN IF \E i \in DOMAIN newEv : newEv[i] # BigZero THEN newEv ELSE u

\* norm: for (let v of newEv) norm += v * v; norm = Math.sqrt(norm).  The
\* model keeps the sum of the squares, normSq, as a digit sequence: an entry
\* of the eigenvector array is u[i] / sqrt(normSq), and Array(n).fill(1 /
\* Math.sqrt(n)) is u = (1, ..., 1) with normSq = n.
BigOfNat(n) == IF n = 0 THEN BigZero ELSE <<n>>
BigAdd(a, b) ==
  LET w == IF Len(a) > Len(b) THEN Len(a) ELSE Len(b)
  IN Strip(Carry([d \in 1 .. w |-> Digit(a, d) + Digit(b, d)], 1, 0))
\* Digit d of a * a before carrying: the sum of a[i] * a[d + 1 - i], i <= upto.
RECURSIVE SquareDigit(_, _, _)
SquareDigit(a, d, upto) ==
  IF upto = 0 THEN 0
  ELSE SquareDigit(a, d, upto - 1)
         + (IF d + 1 - upto >= 1 THEN a[upto] * Digit(a, d + 1 - upto) ELSE 0)
BigSquare(a) ==
  Strip(Carry([d \in 1 .. 2 * Len(a) |-> SquareDigit(a, d, Len(a))], 1, 0))
RECURSIVE SumSquares(_, _)
SumSquares(v, upto) ==
  IF upto = 0 THEN BigZero
  ELSE BigAdd(SumSquares(v, upto - 1), BigSquare(v[upto - 1]))
NormSquared(v) == SumSquares(v, Length(v))

\* The norm that divides the entries after one iteration: that of newEv when
\* norm > 0, the one already in force otherwise.
PowerNormKept(im, u, s) == s
PowerNorm(im, u, s) ==
  LET newEv == MatVec(im, u)
  IN IF \E i \in DOMAIN newEv : newEv[i] # BigZero THEN NormSquared(newEv) ELSE s

\* for (let iter = 0; iter < 50; iter++)
PowerIters == 50

\* ----------------------------------------------- ForceGraph: physics
\* Positions, velocities and forces are whole numbers of canvas units: every
\* quotient and every product with a real coefficient is rounded toward
\* zero, and Math.sqrt is the integer square root.
TruncDiv(a, b) == IF a >= 0 THEN a \div b ELSE -((-a) \div b)
\* c * v for a coefficient c = <<p, q>> and a whole number v.
Times(c, v) == TruncDiv(c[1] * v, c[2])

RECURSIVE SqrtSearch(_, _, _)
SqrtSearch(x, lo, hi) ==
  IF lo = hi THEN lo
  ELSE LET mid == (lo + hi + 1) \div 2
       IN IF mid * mid <= x THEN SqrtSearch(x, mid, hi)
          ELSE SqrtSearch(x, lo, mid - 1)
Sqrt(x) == SqrtSearch(x, 0, IF x < 46340 THEN x ELSE 46340)

\* const k = 0.05; repulsion = 8000; damping = 0.6; centerForce = 0.02;
\* padding = 40; the spring's rest length is 150.
Stiffness == Num(1, 20)
Repulsion == 8000
Damping == Num(3, 5)
CenterForce == Num(1, 50)
Padding == 40
RestLength == 150

\* nodes.map(() => ({ x: 400 + (Math.random() - 0.5) * 200,
\*                    y: 300 + (Math.random() - 0.5) * 200, vx: 0, vy: 0 }))
StartPoints == {<<300, 200>>, <<330, 240>>}
NewNode(pt) == [x |-> pt[1], y |-> pt[2], vx |-> 0, vy |-> 0]
InitialPositions(count) ==
  {[i \in Idx(count) |-> NewNode(c[i])] : c \in [Idx(count) -> StartPoints]}

\* Repulsion on node i from node j: repulsion / (dx*dx + dy*dy + 1) along
\* angle = atan2(dy, dx); atan2(0, 0) is 0, so coincident nodes push along +x.
RepulsionForce(ps, i, j) ==
  LET dx == ps[i].x - ps[j].x
      dy == ps[i].y - ps[j].y
      distSq == dx * dx + dy * dy + 1
      h == Sqrt(dx * dx + dy * dy)
  IN IF h = 0 THEN <<TruncDiv(Repulsion, distSq), 0>>
     ELSE <<TruncDiv(Repulsion * dx, distSq * h),
            TruncDiv(Repulsion * dy, distSq * h)>>

AttractsAlways(m, threshold, i, j) == j \in DOMAIN m[i]
AttractsReversed(m, threshold, i, j) ==
  j \in DOMAIN m[i] /\ Greater(threshold, m[i][j])
\* if (matrix[i][j] > threshold): matrix[i][j] of a missing column is
\* undefined, and undefined > threshold is false.
Attracts(m, threshold, i, j) ==
  j \in DOMAIN m[i] /\ Greater(m[i][j], threshold)

\* Attraction on node i toward node j: (dist - 150) * k * matrix[i][j] along
\* atan2(dy, dx).
AttractionForce(ps, m, i, j) ==
  LET dx == ps[j].x - ps[i].x
      dy == ps[j].y - ps[i].y
      h == Sqrt(dx * dx + dy * dy)
      c == Mul(Stiffness, m[i][j])
  IN IF h = 0 THEN <<Times(c, h - RestLength), 0>>
     ELSE <<TruncDiv(c[1] * (h - RestLength) * dx, c[2] * h),
            TruncDiv(c[1] * (h - RestLength) * dy, c[2] * h)>>

VecAdd(a, b) == <<a[1] + b[1], a[2] + b[2]>>

\* for (let j = 0; j < nodes.length; j++) { if (i === j) continue; ... }
RECURSIVE RepulsionSum(_, _, _)
RepulsionSum(ps, i, upto) ==
  IF upto = 0 THEN <<0, 0>>
  ELSE LET j == upto - 1
           r == RepulsionSum(ps, i, j)
       IN IF i = j THEN r ELSE VecAdd(r, RepulsionForce(ps, i, j))

\* for (let j = 0; j < nodes.length; j++) { if (matrix[i][j] > threshold) ... }
RECURSIVE AttractionSum(_, _, _, _, _)
AttractionSum(ps, m, threshold, i, upto) ==
  IF upto = 0 THEN <<0, 0>>
  ELSE LET j == upto - 1
           r == AttractionSum(ps, m, threshold, i, j)
       IN IF Attracts(m, threshold, i, j)
          THEN VecAdd(r, AttractionForce(ps, m, i, j))
          ELSE r

\* Math.max(padding, Math.min(limit - padding, v))
Max(a, b) == IF a < b THEN b ELSE a
Min(a, b) == IF b < a THEN b ELSE a
ClampMinFirst(v, limit) == Min(limit - Padding, Max(Padding, v))
Clamp(v, limit) == Max(Padding, Min(limit - Padding, v))

\* The body of the loop over i: the net force on node i from the current
\* array, then velocity, position and clamp of node i, in place.
UpdateNode(ps, m, threshold, i, count, width, height) ==
  LET rep == RepulsionSum(ps, i, count)
      att == AttractionSum(ps, m, threshold, i, count)
      fx == rep[1] + att[1] + Times(CenterForce, TruncDiv(width, 2) - ps[i].x)
      fy == rep[2] + att[2] + Times(CenterForce, TruncDiv(height, 2) - ps[i].y)
      vx == Times(Damping, ps[i].vx + fx)
      vy == Times(Damping, ps[i].vy + fy)
  IN [ps EXCEPT ![i] = [x |-> Clamp(ps[i].x + vx, width),
                        y |-> Clamp(ps[i].y + vy, height),
                        vx |-> vx, vy |-> vy]]

\* The physics update of render(): for (let i = 0; i < nodes.length; i++).
\* matrix[i][j] throws a TypeError when row i is missing (matrix[i] is
\* undefined); the nodes before i have been updated by then.
RECURSIVE PhysicsLoop(_, _, _, _, _, _, _)
PhysicsLoop(ps, m, threshold, count, width, height, upto) ==
  IF upto = 0 THEN [positions |-> ps, threw |-> FALSE]
  ELSE LET i == upto - 1
           r == PhysicsLoop(ps, m, threshold, count, width, height, i)
       IN IF r.threw THEN r
          ELSE IF i \notin DOMAIN m THEN [r EXCEPT !.threw = TRUE]
          ELSE [positions |->
                  UpdateNode(r.positions, m, threshold, i, count, width, height),
                threw |-> FALSE]

PhysicsUpdate(ps, m, threshold, count, width, height) ==
  PhysicsLoop(ps, m, threshold, count, width, height, count)


\* ------------------------------------------------ inputs of the engine
\* Edge weights lie in [0, 1]: 0 (no edge), 0.3 and 1.
Weights == {Zero, Num(3, 10), One}
\* Self-weights: 0 (the generated data) or 1 (self-similarity).
SelfWeights == {Zero, One}

\* The symmetric n x n matrices with off-diagonal entries in Weights and
\* one self-weight on the whole diagonal.
UpperPairs(n) == {p \in Idx(n) \X Idx(n) : p[1] < p[2]}
SymmetricMatrices(n) ==
  {[i \in Idx(n) |-> [j \in Idx(n) |->
      IF i = j THEN dg ELSE IF i < j THEN up[<<i, j>>] ELSE up[<<j, i>>]]] :
    up \in [UpperPairs(n) -> Weights], dg \in SelfWeights}

\* The path graph 0 - 1 - 2 of the specification's scenario.
PathMatrix ==
  <<<<One, Num(4, 5), Zero>>, <<Num(4, 5), One, Num(1, 2)>>, <<Zero, Num(1, 2), One>>>>
\* A literal matrix as a function on 0..n-1.
FromRows(rows) ==
  [i \in Idx(Len(rows)) |-> [j \in Idx(Len(rows)) |-> rows[i + 1][j + 1]]]

\* The complete graph on 4 nodes with diagonal 1 and every other weight 0.5.
FourNodeMatrix ==
  <<<<One, Num(1, 2), Num(1, 2), Num(1, 2)>>, <<Num(1, 2), One, Num(1, 2), Num(1, 2)>>,
    <<Num(1, 2), Num(1, 2), One, Num(1, 2)>>, <<Num(1, 2), Num(1, 2), Num(1, 2), One>>>>

InputMatrices ==
  UNION {SymmetricMatrices(n) : n \in 0 .. MaxN}
    \cup {FromRows(PathMatrix), FromRows(FourNodeMatrix)}


\* ------------------------------------------------- App: filteredMatrix
\* currentMatrix.map(row => row.map(val => val >= similarityThreshold ? val : 0)),
\* and [] when currentMatrix is empty.
FilterMatrix(currentMatrix, threshold) ==
  [i \in DOMAIN currentMatrix |-> [j \in DOMAIN currentMatrix[i] |->
     IF GreaterEq(currentMatrix[i][j], threshold) THEN currentMatrix[i][j] ELSE Zero]]

\* The similarity slider: min 0, max 1, step 0.001.
Thresholds == {Zero, Num(3, 10), Num(1, 2), One}

\* const currentMatrix = data[currentMonth] || []: one of the loaded
\* NumCities x NumCities matrices, or [] when the month has no data.
CurrentMatrices == SymmetricMatrices(NumCities) \cup {<<>>}

\* container.clientWidth and container.clientHeight.
ContainerSize == <<800, 600>>

\* e.deltaY of a wheel event and e.clientX, e.clientY of a mouse event.
WheelDeltas == {-5000, 100, 2000}
Cursors == {<<0, 0>>, <<5, 3>>}

\* -------------------------------------------- ForceGraph: view handlers
\* const scaleAmount = -e.deltaY * 0.001;
\* const newScale = Math.max(0.1, Math.min(5, transform.k * (1 + scaleAmount)));
MinScale == Num(1, 10)
MaxScale == Whole(5)
WheelScaleUnclamped(scale, deltaY) == Mul(scale, Add(One, Num(-deltaY, 1000)))
WheelScale(scale, deltaY) ==
  MathMax(MinScale, MathMin(MaxScale, Mul(scale, Add(One, Num(-deltaY, 1000)))))
\* Math.min(5, prev.k * 1.2) and Math.max(0.1, prev.k / 1.2)
ZoomInScale(scale) == MathMin(MaxScale, Mul(scale, Num(6, 5)))
ZoomOutScale(scale) == MathMax(MinScale, Div(scale, Num(6, 5)))
\* handleReset and handleFit
ResetTransform == [x |-> 0, y |-> 0, k |-> One]
FitTransform == [x |-> 0, y |-> 0, k |-> Num(4, 5)]

\* calculateCentrality: its argument, its position and its locals.
VARIABLES matrix, pc, degree, dist, next, k, closeness, betweenness,
          eigenvector, normSq, iter
\* ForceGraph: its props as App derives them, its state, the state its
\* handlers closed over at the last render, the size of its container, the
\* animation frames requested and not yet run (each with the effect run
\* whose render closure it calls), the animationFrameId and the number of
\* the latest effect run, and the history of the behaviour (events, ticks,
\* drag).
VARIABLES currentMatrix, similarityThreshold, mounted, transform, isDragging,
          lastPos, updates, rendered, positions, frames, animationFrameId,
          loop, threw, tornDown, container, events, ticks, drag

\* App: the view shown, the time index and playback flag, the loading flag,
\* the selected category, the data set and its month list, the loadData
\* calls in flight and the number of calls made so far.
VARIABLES view, timeIndex, isPlaying, loading, selectedCategory, data, months,
          loads, started

cvars == <<matrix, pc, degree, dist, next, k, closeness, betweenness,
           eigenvector, normSq, iter>>
gvars == <<currentMatrix, similarityThreshold, mounted, transform, isDragging,
           lastPos, updates, rendered, positions, frames, animationFrameId,
           loop, threw, tornDown, container, events, ticks, drag>>
avars == <<view, timeIndex, isPlaying, loading, selectedCategory, data,
           months, loads, started>>
vars == <<cvars, gvars, avars>>

\* App as constructed: the initial values of its useState calls, no
\* loadData call made yet.
AppIdle ==
  /\ view = "landing"
  /\ timeIndex = 0
  /\ isPlaying = FALSE
  /\ loading = TRUE
  /\ selectedCategory = "1. Food Staples & Grains"
  /\ data = <<>>
  /\ months = <<>>
  /\ loads = {}
  /\ started = 0

\* const degree = Array(n).fill(0) ... Array(n).fill(1 / Math.sqrt(n))
CInit ==
  /\ matrix \in InputMatrices
  /\ pc = "degree"
  /\ degree = Fill(Length(matrix), Zero)
  /\ closeness = Fill(Length(matrix), Zero)
  /\ betweenness = Fill(Length(matrix), Zero)
  /\ eigenvector = Fill(Length(matrix), BigOne)
  /\ normSq = BigOfNat(Length(matrix))
  /\ dist = <<>>
  /\ next = <<>>
  /\ k = 0
  /\ iter = 0
  /\ currentMatrix = <<>> /\ similarityThreshold = Zero /\ mounted = FALSE
  /\ transform = ResetTransform /\ isDragging = FALSE /\ lastPos = <<0, 0>>
  /\ updates = 0 /\ rendered = <<>> /\ positions = <<>>
  /\ frames = {} /\ animationFrameId = 0 /\ loop = 0
  /\ threw = FALSE /\ tornDown = FALSE /\ container = ContainerSize
  /\ events = 0 /\ ticks = 0 /\ drag = <<>>
  /\ AppIdle

ComputeDegree ==
  /\ pc = "degree"
  /\ degree' = DegreeCentrality(matrix)
  /\ pc' = "distance"
  /\ UNCHANGED <<matrix, dist, next, k, closeness, betweenness, eigenvector, iter>>
  /\ UNCHANGED normSq
  /\ UNCHANGED <<gvars, avars>>

DistanceTransformInPlace ==
  /\ pc = "distance"
  /\ matrix' = InitDist(matrix)
  /\ dist' = InitDist(matrix)
  /\ next' = InitNext(matrix)
  /\ k' = 0
  /\ pc' = "floyd"
  /\ UNCHANGED <<degree, closeness, betweenness, eigenvector, iter>>
  /\ UNCHANGED normSq
  /\ UNCHANGED <<gvars, avars>>
DistanceTransform ==
  /\ pc = "distance"
  /\ dist' = InitDist(matrix)
  /\ next' = InitNext(matrix)
  /\ k' = 0
  /\ pc' = "floyd"
  /\ UNCHANGED <<matrix, degree, closeness, betweenness, eigenvector, iter>>
  /\ UNCHANGED normSq
  /\ UNCHANGED <<gvars, avars>>

\* for (let k = 0; k < n; k++) { the i and j loops }
FloydWarshallPass ==
  /\ pc = "floyd"
  /\ k < Length(matrix)
  /\ LET t == FWPass([dist |-> dist, next |-> next], Length(matrix), k,
                     Length(matrix) * Length(matrix))
     IN dist' = t.dist /\ next' = t.next
  /\ k' = k + 1
  /\ UNCHANGED <<matrix, pc, degree, closeness, betweenness, eigenvector, iter>>
  /\ UNCHANGED normSq
  /\ UNCHANGED <<gvars, avars>>

FloydWarshallDone ==
  /\ pc = "floyd"
  /\ ~(k < Length(matrix))
  /\ pc' = "closeness"
  /\ UNCHANGED <<matrix, degree, dist, next, k, closeness, betweenness, eigenvector, iter>>
  /\ UNCHANGED normSq
  /\ UNCHANGED <<gvars, avars>>

ComputeCloseness ==
  /\ pc = "closeness"
  /\ closeness' = ClosenessCentrality(dist)
  /\ pc' = "betweenness"
  /\ UNCHANGED <<matrix, degree, dist, next, k, betweenness, eigenvector, iter>>
  /\ UNCHANGED normSq
  /\ UNCHANGED <<gvars, avars>>

ComputeBetweenness ==
  /\ pc = "betweenness"
  /\ betweenness' = NormalizeBetweenness(BetweennessCount(next))
  /\ iter' = 0
  /\ pc' = "eigenvector"
  /\ UNCHANGED <<matrix, degree, dist, next, k, closeness, eigenvector>>
  /\ UNCHANGED normSq
  /\ UNCHANGED <<gvars, avars>>

PowerIteration ==
  /\ pc = "eigenvector"
  /\ iter < PowerIters
  /\ eigenvector' = PowerStep(Scaled(matrix), eigenvector)
  /\ normSq' = PowerNorm(Scaled(matrix), eigenvector, normSq)
  /\ iter' = iter + 1
  /\ UNCHANGED <<matrix, pc, degree, dist, next, k, closeness, betweenness>>
  /\ UNCHANGED <<gvars, avars>>

Return ==
  /\ pc = "eigenvector"
  /\ ~(iter < PowerIters)
  /\ pc' = "return"
  /\ UNCHANGED <<matrix, degree, dist, next, k, closeness, betweenness, eigenvector, iter>>
  /\ UNCHANGED normSq
  /\ UNCHANGED <<gvars, avars>>

CNext ==
  \/ ComputeDegree
  \/ DistanceTransform
  \/ FloydWarshallPass
  \/ FloydWarshallDone
  \/ ComputeCloseness
  \/ ComputeBetweenness
  \/ PowerIteration
  \/ Return

SpecCentrality == CInit /\ [][CNext]_vars


\* ------------------------------------------------ ForceGraph: component
\* The state the hooks see now.
Current ==
  [transform |-> transform, isDragging |-> isDragging, lastPos |-> lastPos,
   updates |-> updates]

GInit ==
  /\ matrix = <<>> /\ pc = "idle"
  /\ degree = <<>> /\ closeness = <<>> /\ betweenness = <<>> /\ eigenvector = <<>>
  /\ dist = <<>> /\ next = <<>> /\ k = 0 /\ iter = 0 /\ normSq = <<>>
  /\ currentMatrix \in CurrentMatrices
  /\ similarityThreshold = Zero
  /\ mounted = FALSE
  /\ transform = ResetTransform
  /\ isDragging = FALSE
  /\ lastPos = <<0, 0>>
  /\ updates = 0
  /\ rendered = [transform |-> ResetTransform,
                 isDragging |-> FALSE, lastPos |-> <<0, 0>>, updates |-> 0]
  /\ positions \in InitialPositions(NumCities)
  /\ frames = {}
  /\ animationFrameId = 0
  /\ loop = 0
  /\ threw = FALSE
  /\ tornDown = FALSE
  /\ container = ContainerSize
  /\ events = 0
  /\ ticks = 0
  /\ drag = [active |-> FALSE, pan |-> <<0, 0>>, from |-> <<0, 0>>, at |-> <<0, 0>>]
  /\ AppIdle

\* cancelAnimationFrame(animationFrameId)
CancelNothing(pending, id) == pending
CancelFrame(pending, id) == {f \in pending : f.id # id}

RenderFrameReset(m, threshold, run, pending) ==
  /\ ticks < MaxTicks
  /\ LET r == PhysicsUpdate([i \in Idx(NumCities) |-> NewNode(<<400, 300>>)],
                            m, threshold, NumCities,
                            container[1], container[2])
     IN /\ positions' = r.positions
        /\ threw' = r.threw
        /\ frames' = IF r.threw THEN pending
                     ELSE pending \cup {[id |-> ticks + 1, run |-> run,
                                         matrix |-> m, threshold |-> threshold]}
        /\ animationFrameId' =
             IF ~r.threw /\ run = loop' THEN ticks + 1 ELSE animationFrameId
  /\ ticks' = ticks + 1
\* render() of effect run `run`, with the frames `pending` still requested:
\* the physics update on the positions array, the drawing, and
\* animationFrameId = requestAnimationFrame(render), the variable being the
\* one of that effect run; a TypeError leaves no new frame requested.
RenderFrame(m, threshold, run, pending) ==
  /\ ticks < MaxTicks
  /\ LET r == PhysicsUpdate(positions, m, threshold, NumCities,
                            container[1], container[2])
     IN /\ positions' = r.positions
        /\ threw' = r.threw
        /\ frames' = IF r.threw THEN pending
                     ELSE pending \cup {[id |-> ticks + 1, run |-> run,
                                         matrix |-> m, threshold |-> threshold]}
        /\ animationFrameId' =
             IF ~r.threw /\ run = loop' THEN ticks + 1 ELSE animationFrameId
  /\ ticks' = ticks + 1

\* The effect runs: the cleanup of the previous run cancels its requested
\* frame, and the new run calls render().
RunEffect(m, threshold) ==
  /\ loop' = ticks + 1
  /\ RenderFrame(m, threshold, ticks + 1, CancelFrame(frames, animationFrameId))

\* A re-render of ForceGraph with unchanged props: the handlers close over
\* the new state, and the effect runs again (its cleanup cancels the
\* requested frame, then render() is called) when transform is a new object
\* or the matrix prop is the fresh [] of an empty currentMatrix.
Commit ==
  /\ rendered' = [transform |-> transform', isDragging |-> isDragging',
                  lastPos |-> lastPos', updates |-> updates']
  /\ IF updates' # rendered.updates \/ currentMatrix = <<>>
       THEN RunEffect(FilterMatrix(currentMatrix, similarityThreshold),
                      similarityThreshold)
       ELSE UNCHANGED <<positions, frames, animationFrameId, loop, threw, ticks>>

Live == mounted /\ ~threw /\ ~tornDown
NoDrag == [drag EXCEPT !.active = FALSE]

\* The first commit of ForceGraph: the effect calls render().
Mount ==
  /\ ~mounted
  /\ mounted' = TRUE
  /\ RunEffect(FilterMatrix(currentMatrix, similarityThreshold),
               similarityThreshold)
  /\ UNCHANGED <<cvars, avars, currentMatrix, similarityThreshold, transform,
                 isDragging, lastPos, updates, rendered, tornDown, container,
                 events, drag>>

\* App re-renders with another month, data set or threshold: filteredMatrix
\* is a new array, so the effect runs again.
DriverUpdate(cm, threshold) ==
  /\ Live
  /\ <<cm, threshold>> # <<currentMatrix, similarityThreshold>>
  /\ currentMatrix' = cm
  /\ similarityThreshold' = threshold
  /\ rendered' = Current
  /\ RunEffect(FilterMatrix(cm, threshold), threshold)
  /\ UNCHANGED <<cvars, avars, mounted, transform, isDragging, lastPos, updates,
                 tornDown, container, events, drag>>

\* The browser runs a requested frame: the render closure of the effect run
\* that requested it, with the matrix and threshold of that run.
AnimationFrame ==
  /\ \E f \in frames :
       /\ loop' = loop
       /\ RenderFrame(f.matrix, f.threshold, f.run, frames \ {f})
  /\ UNCHANGED <<cvars, avars, currentMatrix, similarityThreshold, mounted, transform,
                 isDragging, lastPos, updates, rendered, tornDown, container,
                 events, drag>>

\* A user event on the canvas or the toolbar.
UserEvent ==
  /\ Live
  /\ events < MaxEvents
  /\ events' = events + 1
  /\ UNCHANGED <<cvars, avars, currentMatrix, similarityThreshold, mounted, tornDown,
                 container>>

\* wheel: transform.k is the scale of the last render; the update waits for
\* the next re-render.
handleWheel(deltaY) ==
  /\ UserEvent
  /\ transform' = [transform EXCEPT !.k = WheelScale(rendered.transform.k, deltaY)]
  /\ updates' = updates + 1
  /\ drag' = NoDrag
  /\ UNCHANGED <<isDragging, lastPos, rendered, positions, frames,
                 animationFrameId, loop,
                 threw, ticks>>

\* mousedown: re-rendered before the next event.
handleMouseDown(p) ==
  /\ UserEvent
  /\ isDragging' = TRUE
  /\ lastPos' = p
  /\ UNCHANGED <<transform, updates>>
  /\ drag' = [active |-> TRUE, pan |-> <<transform.x, transform.y>>,
              from |-> p, at |-> p]
  /\ Commit

\* mousemove: isDragging and lastPos are those of the last render; the
\* updates wait for the next re-render.
handleMouseMove(p) ==
  /\ UserEvent
  /\ IF rendered.isDragging
       THEN /\ transform' = [transform EXCEPT
                               !.x = @ + (p[1] - rendered.lastPos[1]),
                               !.y = @ + (p[2] - rendered.lastPos[2])]
            /\ lastPos' = p
            /\ updates' = updates + 1
       ELSE UNCHANGED <<transform, lastPos, updates>>
  /\ drag' = IF drag.active THEN [drag EXCEPT !.at = p] ELSE drag
  /\ UNCHANGED <<isDragging, rendered, positions, frames, animationFrameId,
                 loop, threw, ticks>>

\* mouseup: re-rendered before the next event.
handleMouseUp ==
  /\ UserEvent
  /\ isDragging' = FALSE
  /\ drag' = NoDrag
  /\ UNCHANGED <<transform, lastPos, updates>>
  /\ Commit

\* mouseleave (onMouseLeave={handleMouseUp}): the update waits for the next
\* re-render.
MouseLeave ==
  /\ UserEvent
  /\ isDragging' = FALSE
  /\ drag' = NoDrag
  /\ UNCHANGED <<transform, lastPos, updates, rendered, positions,
                 frames, animationFrameId, loop, threw, ticks>>

\* The toolbar buttons (click): re-rendered before the next event.
SetTransform(t) ==
  /\ UserEvent
  /\ transform' = t
  /\ updates' = updates + 1
  /\ drag' = NoDrag
  /\ UNCHANGED <<isDragging, lastPos>>
  /\ Commit

handleZoomIn == SetTransform([transform EXCEPT !.k = ZoomInScale(@)])
handleZoomOut == SetTransform([transform EXCEPT !.k = ZoomOutScale(@)])
handleReset == SetTransform(ResetTransform)
handleFit == SetTransform(FitTransform)

\* The re-render that pending updates of wheel, mousemove and mouseleave
\* have scheduled.
Render ==
  /\ Live
  /\ Current # rendered
  /\ UNCHANGED <<transform, isDragging, lastPos, updates>>
  /\ Commit
  /\ UNCHANGED <<cvars, avars, currentMatrix, similarityThreshold, mounted, tornDown,
                 container, events, drag>>

GNext ==
  \/ Mount
  \/ AnimationFrame
  \/ \E d \in WheelDeltas : handleWheel(d)
  \/ \E p \in Cursors : handleMouseDown(p)
  \/ \E p \in Cursors : handleMouseMove(p)
  \/ handleMouseUp
  \/ MouseLeave
  \/ handleZoomIn
  \/ handleZoomOut
  \/ handleReset
  \/ handleFit
  \/ Render

SpecGraph == GInit /\ [][GNext]_vars

\* The view is torn down: the cleanup of the effect cancels the requested
\* frame.
Teardown ==
  /\ Live
  /\ tornDown' = TRUE
  /\ frames' = CancelFrame(frames, animationFrameId)
  /\ UNCHANGED <<cvars, avars, currentMatrix, similarityThreshold, mounted, transform,
                 isDragging, lastPos, updates, rendered, positions,
                 animationFrameId, loop, threw, container, events, ticks, drag>>

\* ForceGraph under its driver: App hands it new props or tears it down; of
\* the user events only the toolbar's zoom-in.
DNext ==
  \/ Mount
  \/ \E cm \in CurrentMatrices, t \in Thresholds : DriverUpdate(cm, t)
  \/ AnimationFrame
  \/ handleZoomIn
  \/ Teardown

SpecDriver == GInit /\ [][DNext]_vars

\* ------------------------------------------------ claims: centrality
AtReturn == pc = "return"
NodeCount == Length(matrix)
InUnitInterval(x) == LessEq(Zero, x) /\ LessEq(x, One)
\* Every off-diagonal weight of m is 0.
ZeroOffDiagonal(m) == \A i, j \in DOMAIN m : i # j => m[i][j] = Zero
\* Every off-diagonal weight of m is one constant w > 0, every diagonal
\* entry one constant.
UniformComplete(m) ==
  /\ \A i, j, a, b \in DOMAIN m : (i # j /\ a # b) => m[i][j] = m[a][b]
  /\ \A i, j \in DOMAIN m : i # j => Greater(m[i][j], Zero)
  /\ \A i, j \in DOMAIN m : m[i][i] = m[j][j]
\* Every entry of the eigenvector array is 1/sqrt(n): the entries of u are
\* equal and not 0.
EigenvectorUniform ==
  \A i, j \in DOMAIN eigenvector :
    eigenvector[i] = eigenvector[j] /\ eigenvector[i] # BigZero

\* C1: once the betweenness counters are normalised, every betweenness
\* value lies in [0, 1], and if some counter is nonzero some node's
\* betweenness is exactly 1.
C1_BetweennessRange ==
  pc \in {"eigenvector", "return"} =>
    /\ \A i \in DOMAIN betweenness : InUnitInterval(betweenness[i])
    /\ (\E i \in DOMAIN next : BetweennessCount(next)[i] > 0)
         => \E i \in DOMAIN betweenness : betweenness[i] = One
C1_Witness ==
  /\ AtReturn
  /\ \E i, j \in DOMAIN betweenness :
       /\ BetweennessCount(next)[i] > 1
       /\ betweenness[i] = One /\ betweenness[j] = Zero

\* C2 as stated: on the path matrix node 1 has the highest betweenness and
\* node 0 the lowest closeness.
C2_Node0LowestCloseness ==
  (AtReturn /\ matrix = FromRows(PathMatrix)) =>
    /\ Greater(betweenness[1], betweenness[0])
    /\ Greater(betweenness[1], betweenness[2])
    /\ Less(closeness[0], closeness[1])
    /\ Less(closeness[0], closeness[2])
\* C2 amended: on the path matrix node 1 has the highest betweenness and
\* node 2 (not node 0) the lowest closeness; node 0 lies between.
C2_Node2LowestCloseness ==
  (AtReturn /\ matrix = FromRows(PathMatrix)) =>
    /\ Greater(betweenness[1], betweenness[0])
    /\ Greater(betweenness[1], betweenness[2])
    /\ Less(closeness[2], closeness[0])
    /\ Less(closeness[0], closeness[1])
C2_Witness ==
  /\ AtReturn /\ matrix = FromRows(PathMatrix)
  /\ betweenness[1] = One
  /\ closeness[2] = Num(21, 52) /\ closeness[0] = Num(36, 65)

\* C3 as stated (on its matrices of two or more nodes): with zero
\* off-diagonal weights, whatever the diagonal, degree, closeness and
\* betweenness are 0 and the eigenvector is uniform.
C3_ZeroOffDiagonalAllZero ==
  (AtReturn /\ ZeroOffDiagonal(matrix) /\ NodeCount >= 2) =>
    /\ \A i \in DOMAIN matrix :
         degree[i] = Zero /\ closeness[i] = Zero /\ betweenness[i] = Zero
    /\ EigenvectorUniform
\* C3 amended: with zero off-diagonal weights and n >= 2, closeness and
\* betweenness are 0, degree[i] is m[i][i]/(n-1) (0 only for a zero
\* self-entry), and the eigenvector is uniform when the diagonal entries
\* are all equal.
C3_ZeroOffDiagonalAmended ==
  (AtReturn /\ ZeroOffDiagonal(matrix) /\ NodeCount >= 2) =>
    /\ \A i \in DOMAIN matrix :
         /\ closeness[i] = Zero /\ betweenness[i] = Zero
         /\ degree[i] = Div(matrix[i][i], Whole(NodeCount - 1))
         /\ (degree[i] = Zero <=> matrix[i][i] = Zero)
    /\ (\A i, j \in DOMAIN matrix : matrix[i][i] = matrix[j][j])
         => EigenvectorUniform
C3_Witness ==
  /\ AtReturn /\ ZeroOffDiagonal(matrix) /\ NodeCount = 3
  /\ matrix[0][0] = One /\ degree[0] = Num(1, 2) /\ EigenvectorUniform

\* C4: for n <= 1 nothing is divided by zero: for n = 1 degree and
\* closeness are 0 and the eigenvector is 1/sqrt(1); for n = 0 the four
\* arrays are empty.
C4_DegenerateNoDivisionByZero ==
  (AtReturn /\ NodeCount <= 1) =>
    /\ \A i \in DOMAIN matrix : degree[i] = Zero /\ closeness[i] = Zero
    /\ EigenvectorUniform
    /\ DOMAIN degree = DOMAIN matrix /\ DOMAIN closeness = DOMAIN matrix
    /\ DOMAIN betweenness = DOMAIN matrix /\ DOMAIN eigenvector = DOMAIN matrix

EdgeSet(raw, t) ==
  {p \in Idx(NumCities) \X Idx(NumCities) :
     /\ p[1] \in DOMAIN FilterMatrix(raw, t)
     /\ Attracts(FilterMatrix(raw, t), t, p[1], p[2])}

\* C6: for the raw matrix in use and any two thresholds t1 < t2, the
\* attracting edges at t2 are a subset of the attracting edges at t1.
C6_ThresholdMonotone ==
  \A t1 \in Thresholds, t2 \in Thresholds :
    Less(t1, t2) => EdgeSet(currentMatrix, t2) \subseteq EdgeSet(currentMatrix, t1)
\* The layout has run at threshold 0.3 after the threshold was raised, with
\* some edges left and strictly fewer than at threshold 0.
C6_Witness ==
  /\ mounted /\ ~threw /\ ticks >= 2
  /\ similarityThreshold = Num(3, 10)
  /\ EdgeSet(currentMatrix, Num(3, 10)) # {}
  /\ EdgeSet(currentMatrix, Num(3, 10)) # EdgeSet(currentMatrix, Zero)

\* C7: a simulation tick never fails, whatever matrix the driver hands to
\* ForceGraph, the empty matrix of a month without data included.
C7_TickNeverFails == ~threw

\* C8: after any sequence of wheel, zoom-in, zoom-out, fit and reset
\* actions the view scale lies within [0.1, 5].
C8_ScaleInRange ==
  /\ GreaterEq(transform.k, MinScale) /\ LessEq(transform.k, MaxScale)
  /\ GreaterEq(rendered.transform.k, MinScale)
  /\ LessEq(rendered.transform.k, MaxScale)
\* Both limits have been hit: a wheel event took the scale to 5, and after
\* the re-render another one took it to 0.1.
C8_Witness ==
  /\ events >= 2
  /\ rendered.transform.k = MaxScale
  /\ transform.k = MinScale

\* A pan, wheel, zoom, fit or reset handler, or the re-render it causes.
ViewAction ==
  \/ \E d \in WheelDeltas : handleWheel(d)
  \/ \E p \in Cursors : handleMouseDown(p)
  \/ \E p \in Cursors : handleMouseMove(p)
  \/ handleMouseUp
  \/ MouseLeave
  \/ handleZoomIn
  \/ handleZoomOut
  \/ handleReset
  \/ handleFit
  \/ Render

\* C9: a pan, wheel-zoom, zoom-in, zoom-out, fit or reset action, and the
\* re-render it causes, leave every node's position and velocity unchanged.
C9_ViewLeavesPhysics == [][ViewAction => positions' = positions]_vars

\* C10: during a drag the pan offset is the pan at mouse-down plus the
\* displacement of the cursor since mouse-down.
C10_DragFollowsCursor ==
  drag.active =>
    /\ transform.x = drag.pan[1] + (drag.at[1] - drag.from[1])
    /\ transform.y = drag.pan[2] + (drag.at[2] - drag.from[2])

\* C11: replacing the matrix or the threshold does not recreate or reset the
\* node records: the tick that follows the change starts from the positions
\* and velocities the nodes have at that moment.
C11_PositionsSurviveUpdate ==
  [][(\E cm \in CurrentMatrices, t \in Thresholds : DriverUpdate(cm, t)) =>
       /\ DOMAIN positions' = DOMAIN positions
       /\ positions' =
            PhysicsUpdate(positions,
                          FilterMatrix(currentMatrix', similarityThreshold'),
                          similarityThreshold', NumCities,
                          container[1], container[2]).positions]_vars
\* The threshold has been raised on a mounted graph, and the nodes are
\* moving from where the earlier ticks left them, not from a start layout.
C11_Witness ==
  /\ mounted /\ ~threw /\ ticks >= 2
  /\ similarityThreshold # Zero
  /\ positions \notin InitialPositions(NumCities)
  /\ \E i \in DOMAIN positions : positions[i].vx # 0

\* C12: at every moment at most one animation frame is requested, it
\* belongs to the latest effect run (no frame of a cleaned-up loop is left
\* to run), and none is requested once the view is torn down.
C12_OneLiveFrame ==
  /\ Cardinality(frames) <= 1
  /\ \A f \in frames : f.run = loop
  /\ tornDown => frames = {}
\* The loop was restarted by a change while a frame was requested, a frame
\* of the restarted loop ran and requested the next one, and the view was
\* then torn down.
C12_Witness ==
  /\ tornDown
  /\ loop >= 2
  /\ animationFrameId > loop
  /\ frames = {}

\* C13: the physics step runs once per rendering frame: node positions are
\* advanced only by the callback of an animation frame (and by the first
\* render() when the graph is mounted), also when the matrix, the threshold
\* or the view transform changes between two frames.
C13_OneStepPerFrame ==
  [][ticks' = ticks + 1 => (AnimationFrame \/ Mount)]_vars

\* ------------------------------------------------------ App: one render
\* One render of the dashboard: filteredMatrix is derived from
\* currentMatrix, metrics = calculateCentrality(filteredMatrix) is computed
\* during the render, and after the commit the effect of ForceGraph ticks
\* on the same filteredMatrix.
PInit ==
  /\ pc = "filter"
  /\ matrix = <<>>
  /\ degree = <<>> /\ closeness = <<>> /\ betweenness = <<>> /\ eigenvector = <<>>
  /\ dist = <<>> /\ next = <<>> /\ k = 0 /\ iter = 0 /\ normSq = <<>>
  /\ currentMatrix \in CurrentMatrices
  /\ similarityThreshold \in Thresholds
  /\ mounted = FALSE
  /\ transform = ResetTransform /\ isDragging = FALSE /\ lastPos = <<0, 0>>
  /\ updates = 0
  /\ rendered = [transform |-> ResetTransform,
                 isDragging |-> FALSE, lastPos |-> <<0, 0>>, updates |-> 0]
  /\ positions \in InitialPositions(NumCities)
  /\ frames = {} /\ animationFrameId = 0 /\ loop = 0
  /\ threw = FALSE /\ tornDown = FALSE /\ container = ContainerSize
  /\ events = 0 /\ ticks = 0
  /\ drag = [active |-> FALSE, pan |-> <<0, 0>>, from |-> <<0, 0>>, at |-> <<0, 0>>]
  /\ AppIdle

\* const filteredMatrix = useMemo(...); calculateCentrality(filteredMatrix)
\* is entered with it.
Filter ==
  /\ pc = "filter"
  /\ matrix' = FilterMatrix(currentMatrix, similarityThreshold)
  /\ degree' = Fill(Length(matrix'), Zero)
  /\ closeness' = Fill(Length(matrix'), Zero)
  /\ betweenness' = Fill(Length(matrix'), Zero)
  /\ eigenvector' = Fill(Length(matrix'), BigOne)
  /\ normSq' = BigOfNat(Length(matrix'))
  /\ pc' = "degree"
  /\ UNCHANGED <<dist, next, k, iter>>
  /\ UNCHANGED <<gvars, avars>>

\* The effect of ForceGraph runs after the render that computed the metrics.
MountAfterRender == pc = "return" /\ Mount

PNext ==
  \/ Filter
  \/ ComputeDegree
  \/ DistanceTransform
  \/ FloydWarshallPass
  \/ FloydWarshallDone
  \/ ComputeCloseness
  \/ ComputeBetweenness
  \/ PowerIteration
  \/ Return
  \/ MountAfterRender
  \/ AnimationFrame

SpecPipeline == PInit /\ [][PNext]_vars

\* C14: calculateCentrality, the threshold filter and the layout tick leave
\* the matrix they are given as it was: the raw matrix never changes, and
\* the filtered matrix never changes once the filter has produced it.
C14_MatrixNotMutated ==
  [][/\ currentMatrix' = currentMatrix
     /\ pc # "filter" => matrix' = matrix]_vars
\* The filter has zeroed an entry, the metrics have been returned and the
\* layout has ticked twice, and the tick's matrix is still the filtered raw
\* matrix.
C14_Witness ==
  /\ pc = "return" /\ mounted /\ ~threw /\ ticks >= 2
  /\ matrix # currentMatrix
  /\ matrix = FilterMatrix(currentMatrix, similarityThreshold)
  /\ \E f \in frames : f.matrix = matrix

\* ------------------------------------------------------------ C15, C16
AllZero(m) == \A i, j \in DOMAIN m : m[i][j] = Zero

\* C15: for every non-empty input matrix the returned eigenvector array has
\* Euclidean norm 1 (the squares of its entries u[i] / sqrt(normSq) add up to
\* 1), and for the zero matrix, whose every product has norm 0, it is still
\* the uniform vector it was filled with.
C15_EigenvectorUnitNorm ==
  (AtReturn /\ NodeCount >= 1) =>
    /\ normSq # BigZero
    /\ NormSquared(eigenvector) = normSq
    /\ AllZero(matrix) =>
         eigenvector = Fill(NodeCount, BigOne) /\ normSq = BigOfNat(NodeCount)
C15_Witness ==
  /\ AtReturn /\ NodeCount = 3 /\ iter = PowerIters
  /\ eigenvector[0] # eigenvector[1]
  /\ Len(eigenvector[2]) > 1
  /\ NormSquared(eigenvector) = normSq

\* Entry i of the eigenvector array is exactly 1/2: u[i] > 0 and
\* 4 * u[i]^2 = normSq.
EntryIsHalf(i) ==
  /\ eigenvector[i] # BigZero
  /\ NormSquared([j \in Idx(4) |-> eigenvector[i]]) = normSq

\* C16: for the 4-node matrix with diagonal 1 and every other weight 0.5 the
\* eigenvector is [0.5, 0.5, 0.5, 0.5] when it is returned after the 50
\* iterations, and already after every single iteration.
C16_FourNodeHalf ==
  (matrix = FromRows(FourNodeMatrix) /\ pc \in {"eigenvector", "return"}) =>
    \A i \in Idx(4) : EntryIsHalf(i)
C16_Witness ==
  /\ matrix = FromRows(FourNodeMatrix) /\ AtReturn /\ iter = PowerIters
  /\ \A i \in Idx(4) : EntryIsHalf(i)
  /\ Len(eigenvector[0]) > 1

\* ------------------------------------------------------------------ C17
\* The threshold is above every weight of m.
AboveEveryWeight(m, threshold) ==
  \A i \in DOMAIN m : \A j \in DOMAIN m[i] : Less(m[i][j], threshold)
\* One tick in which the force on a node is the repulsion from every other
\* node plus the pull to the centre, and nothing else.
RepelAndCenterNode(ps, i, count, width, height) ==
  LET rep == RepulsionSum(ps, i, count)
      fx == rep[1] + Times(CenterForce, TruncDiv(width, 2) - ps[i].x)
      fy == rep[2] + Times(CenterForce, TruncDiv(height, 2) - ps[i].y)
      vx == Times(Damping, ps[i].vx + fx)
      vy == Times(Damping, ps[i].vy + fy)
  IN [ps EXCEPT ![i] = [x |-> Clamp(ps[i].x + vx, width),
                        y |-> Clamp(ps[i].y + vy, height),
                        vx |-> vx, vy |-> vy]]
RECURSIVE RepelAndCenter(_, _, _, _, _)
RepelAndCenter(ps, count, width, height, upto) ==
  IF upto = 0 THEN ps
  ELSE RepelAndCenterNode(RepelAndCenter(ps, count, width, height, upto - 1),
                          upto - 1, count, width, height)

\* C17: from the positions the graph has, a tick with any full matrix and a
\* threshold above every one of its weights lets no pair attract and moves
\* the nodes exactly as repulsion from every other node plus centering do.
C17_NoAttractionAboveAll ==
  mounted =>
    \A m \in SymmetricMatrices(NumCities), t \in Thresholds :
      AboveEveryWeight(m, t) =>
        /\ \A i, j \in Idx(NumCities) : ~Attracts(m, t, i, j)
        /\ PhysicsUpdate(positions, m, t, NumCities, container[1], container[2])
             = [positions |-> RepelAndCenter(positions, NumCities, container[1],
                                             container[2], NumCities),
                threw |-> FALSE]
\* The driver has raised the threshold above every weight of the matrix in
\* use, which has positive weights; the nodes have been through two ticks
\* and are close enough to push each other.
C17_Witness ==
  /\ Live /\ ticks >= 2 /\ currentMatrix # <<>>
  /\ AboveEveryWeight(currentMatrix, similarityThreshold)
  /\ \E i, j \in Idx(NumCities) : i # j /\ Greater(currentMatrix[i][j], Zero)
  /\ RepulsionSum(positions, 0, NumCities) # <<0, 0>>
  /\ RepulsionSum(positions, 1, NumCities) # <<0, 0>>
  /\ positions[0].vx # 0

\* ------------------------------------------------------------------ C18
\* A tick in which the force on every node is computed from the positions
\* all nodes had at the end of the previous tick.
FromPreviousTick(ps, m, threshold, count, width, height) ==
  [i \in Idx(count) |-> UpdateNode(ps, m, threshold, i, count, width, height)[i]]

\* C18: within one tick the force on every node is computed from the
\* positions all nodes had at the end of the previous tick; no node's force
\* reads a position already updated in the same tick.
C18_ForcesFromPreviousTick ==
  [][(ticks' = ticks + 1 /\ ~threw' /\ currentMatrix' # <<>>) =>
       positions' =
         FromPreviousTick(positions,
                          FilterMatrix(currentMatrix', similarityThreshold'),
                          similarityThreshold', NumCities,
                          container[1], container[2])]_vars

\* ------------------------------------------------ ForceGraph: its canvas
\* The sizes the layout may give the container: render() reads
\* container.clientWidth and clientHeight anew in every tick.
ContainerSizes == {<<800, 600>>, <<80, 80>>, <<60, 600>>, <<0, 0>>}

\* The browser lays the container out at another size.
Resize(size) ==
  /\ size # container
  /\ container' = size
  /\ UNCHANGED <<cvars, avars, currentMatrix, similarityThreshold, mounted, transform,
                 isDragging, lastPos, updates, rendered, positions, frames,
                 animationFrameId, loop, threw, tornDown, events, ticks, drag>>

\* ForceGraph in a container that changes size between ticks.
KNext ==
  \/ Mount
  \/ AnimationFrame
  \/ \E size \in ContainerSizes : Resize(size)

SpecCanvas == GInit /\ [][KNext]_vars

\* ------------------------------------------------------------------ C19
InPaddedRange(v, limit) == Padding <= v /\ v <= limit - Padding

\* C19 as stated: after every tick, for every canvas width and height, a
\* canvas smaller than twice the padding included, every node satisfies
\* padding <= x <= width - padding and padding <= y <= height - padding.
C19_AlwaysInPaddedRect ==
  [][(ticks' = ticks + 1 /\ ~threw') =>
       \A i \in DOMAIN positions' :
         /\ InPaddedRange(positions'[i].x, container[1])
         /\ InPaddedRange(positions'[i].y, container[2])]_vars

\* A coordinate after a tick: inside the padded range when the canvas has
\* room for one (limit >= 2 * padding), and exactly the padding otherwise.
ClampedTo(v, limit) ==
  IF limit >= 2 * Padding THEN InPaddedRange(v, limit) ELSE v = Padding

\* C19 amended: after every tick every node lies in the padded rectangle
\* along each axis on which the canvas is at least twice the padding; along
\* a smaller axis its coordinate is the padding itself.
C19_PaddedRectWhenRoom ==
  [][(ticks' = ticks + 1 /\ ~threw') =>
       \A i \in DOMAIN positions' :
         /\ ClampedTo(positions'[i].x, container[1])
         /\ ClampedTo(positions'[i].y, container[2])]_vars
\* Two ticks have run in a container 60 wide and 600 high: every node sits
\* at x = 40, right of the padded range, and inside the range in y.
C19_Witness ==
  /\ Live /\ ticks >= 2 /\ container = <<60, 600>>
  /\ \A i \in DOMAIN positions :
       /\ positions[i].x = Padding
       /\ positions[i].x > container[1] - Padding
       /\ InPaddedRange(positions[i].y, container[2])
       /\ positions[i].y # Padding

\* ------------------------------------------------------------------ C20
\* C20: in the distance table the self-distance dist[i][i] is 0 for every
\* node i, after the distance transform and after Floyd-Warshall, for every
\* input matrix, a positive diagonal entry included.
C20_SelfDistanceZero ==
  pc \in {"floyd", "closeness", "betweenness", "eigenvector", "return"} =>
    \A i \in DOMAIN dist : dist[i][i] = Zero

\* ------------------------------------------------------------------ C21
AfterFloydWarshall == pc \in {"closeness", "betweenness", "eigenvector", "return"}
\* The cost of the edge from i to j: 1/weight, infinite without an edge.
EdgeCost(m, i, j) ==
  IF Greater(m[i][j], Zero) THEN Div(One, m[i][j]) ELSE Infinity
\* The paths from i to j that visit no node twice, as node sequences.
SimplePaths(n, i, j) ==
  {p \in UNION {[1 .. l -> Idx(n)] : l \in 2 .. n} :
     /\ p[1] = i /\ p[Len(p)] = j
     /\ \A a, b \in DOMAIN p : a # b => p[a] # p[b]}
RECURSIVE CostUpto(_, _, _)
CostUpto(m, p, upto) ==
  IF upto <= 1 THEN Zero
  ELSE Add(CostUpto(m, p, upto - 1), EdgeCost(m, p[upto - 1], p[upto]))
PathCost(m, p) == CostUpto(m, p, Len(p))
\* c is the least cost of a path from i to j (costs are positive, so the
\* least cost is attained on a path without repeated nodes).
IsMinCost(m, i, j, c) ==
  /\ \E p \in SimplePaths(Length(m), i, j) : PathCost(m, p) = c
  /\ \A p \in SimplePaths(Length(m), i, j) : LessEq(c, PathCost(m, p))
\* The node sequence obtained by following next[.][j] from curr, for at
\* most fuel hops.
RECURSIVE Follow(_, _, _, _)
Follow(nx, curr, j, fuel) ==
  IF curr = j \/ curr = -1 \/ fuel = 0 THEN <<curr>>
  ELSE <<curr>> \o Follow(nx, nx[curr][j], j, fuel - 1)

\* C21: after the Floyd-Warshall loop, for all distinct i and j, dist[i][j]
\* is the minimum total cost (sum of 1/weight) over all paths from i to j,
\* infinite when there is none, and the path that follows next[.][j] from i
\* reaches j with total cost exactly dist[i][j].
C21_ShortestPaths ==
  AfterFloydWarshall =>
    \A i, j \in DOMAIN matrix :
      i # j =>
        /\ IsMinCost(matrix, i, j, dist[i][j])
        /\ IsFinite(dist[i][j]) =>
             LET p == Follow(next, i, j, NodeCount - 1)
             IN /\ p \in SimplePaths(NodeCount, i, j)
                /\ PathCost(matrix, p) = dist[i][j]
        /\ ~IsFinite(dist[i][j]) => next[i][j] = -1
\* A 3-node matrix where the detour beats a direct edge, and a pair without
\* any path, after the whole function has run.
C21_Witness ==
  /\ AtReturn /\ NodeCount = 3
  /\ Greater(matrix[0][2], Zero) /\ next[0][2] = 1
  /\ Less(dist[0][2], EdgeCost(matrix, 0, 2))
  /\ PathCost(matrix, Follow(next, 0, 2, 2)) = dist[0][2]

\* ------------------------------------------------------------------ C22
\* The nodes strictly between the ends of a node sequence.
Interior(p) == {p[a] : a \in {b \in DOMAIN p : 1 < b /\ b < Len(p)}}
NoRepeat(s) == \A a, b \in DOMAIN s : a # b => s[a] # s[b]

\* C22: for every ordered pair i /= j the betweenness walk terminates after
\* at most n - 1 hops, ends at j when j is reachable and at -1 otherwise,
\* visits no node twice, and increments by exactly 1 the counter of each
\* node strictly between i and j on the path, and no other counter.
C22_WalkCountsInterior ==
  AfterFloydWarshall =>
    \A i, j \in DOMAIN next :
      i # j =>
        LET w == WalkOf(next, i, j)
        IN /\ ~w.cut
           /\ Len(w.hit) + 1 <= NodeCount - 1
           /\ w.last = IF IsFinite(dist[i][j]) THEN j ELSE -1
           /\ NoRepeat(w.hit)
           /\ \A a \in DOMAIN w.hit : w.hit[a] \notin {i, j}
           /\ {w.hit[a] : a \in DOMAIN w.hit}
                = IF IsFinite(dist[i][j])
                    THEN Interior(Follow(next, i, j, NodeCount))
                    ELSE {}
\* The walk from 0 to 2 passes through node 1 and counts it once, and the
\* counters of the whole run are 0, 2, 0.
C22_Witness ==
  /\ AtReturn /\ NodeCount = 3
  /\ WalkOf(next, 0, 2) = [hit |-> <<1>>, cut |-> FALSE, last |-> 2]
  /\ WalkOf(next, 0, 1).hit = <<>>
  /\ BetweennessCount(next) = [i \in Idx(3) |-> IF i = 1 THEN 2 ELSE 0]

\* ------------------------------------------------------------ C23, C24
\* The sum of f[x] over the finite set S.
RECURSIVE SumOver(_, _)
SumOver(S, f) ==
  IF S = {} THEN Zero
  ELSE LET x == CHOOSE y \in S : TRUE
       IN Add(f[x], SumOver(S \ {x}, f))
Reachable(i) == {j \in DOMAIN dist : j # i /\ IsFinite(dist[i][j])}

\* C23: for n >= 2, closeness[i] is the sum of 1/dist[i][j] over the nodes
\* j /= i reachable from i, divided by n - 1; unreachable nodes add nothing
\* and still count in the divisor, so a node that reaches no other node has
\* closeness 0.
C23_ClosenessHarmonic ==
  (pc \in {"betweenness", "eigenvector", "return"} /\ NodeCount >= 2) =>
    \A i \in DOMAIN matrix :
      /\ closeness[i] =
           Div(SumOver(Reachable(i), [j \in DOMAIN dist |-> Div(One, dist[i][j])]),
               Whole(NodeCount - 1))
      /\ Reachable(i) = {} => closeness[i] = Zero
\* Node 2 reaches nobody and has closeness 0; node 0 reaches only node 1,
\* at distance 10/3, and has closeness (3/10) / 2.
C23_Witness ==
  /\ AtReturn /\ NodeCount = 3
  /\ Reachable(2) = {} /\ closeness[2] = Zero
  /\ Reachable(0) = {1} /\ dist[0][1] = Num(10, 3)
  /\ closeness[0] = Num(3, 20)

\* C24: for n >= 2, degree[i] is the sum of all entries of row i, the
\* self-entry m[i][i] included, divided by n - 1.
C24_DegreeIncludesSelf ==
  (pc # "degree" /\ NodeCount >= 2) =>
    \A i \in DOMAIN matrix :
      degree[i] = Div(SumOver(DOMAIN matrix, [j \in DOMAIN matrix |-> matrix[i][j]]),
                      Whole(NodeCount - 1))
\* A 3-node matrix of ones: the row sum 3 with the self-entry, over 2.
C24_Witness ==
  /\ AtReturn /\ NodeCount = 3
  /\ \A j \in Idx(3) : matrix[0][j] = One
  /\ degree[0] = Num(3, 2)

\* ------------------------------------------------------------------ C25
\* C25: every wheel event multiplies the current scale: the scale after it
\* is clamp(s * (1 - 0.001 * deltaY), 0.1, 5) for the scale s just before
\* it, also when earlier wheel events have not been re-rendered yet.
C25_WheelMultipliesCurrent ==
  [][\A d \in WheelDeltas :
       handleWheel(d) => transform'.k = WheelScale(transform.k, d)]_vars

\* ------------------------------------------------------------ C27, C28
\* The matrix App hands to calculateCentrality and to ForceGraph.
FilteredNow == FilterMatrix(currentMatrix, similarityThreshold)

\* C27: the centrality engine and the layout agree on the edges: for every
\* pair i /= j the filtered weight handed to calculateCentrality is positive
\* exactly when the layout applies an attraction force between i and j, a
\* weight equal to the threshold included.
C27_EnginesAgreeOnEdges ==
  (mounted /\ currentMatrix # <<>>) =>
    \A i, j \in Idx(NumCities) :
      i # j =>
        (Greater(FilteredNow[i][j], Zero)
           <=> Attracts(FilteredNow, similarityThreshold, i, j))

\* C28: the attraction force on a node comes from other nodes only: a node
\* whose off-diagonal weights are all at or below the threshold gets zero
\* attraction force in a tick, whatever its diagonal entry is.
C28_NoSelfAttraction ==
  (mounted /\ currentMatrix # <<>>) =>
    \A i \in Idx(NumCities) :
      (\A j \in Idx(NumCities) :
         j # i => LessEq(FilteredNow[i][j], similarityThreshold))
        => AttractionSum(positions, FilteredNow, similarityThreshold, i,
                         NumCities) = <<0, 0>>

\* ------------------------------------------------------- App: data loading
\* Largest number of loadData calls in one behaviour.
MaxLoads == 3

\* Two of the categories of the sidebar.
Categories == {"1. Food Staples & Grains", "2. Meat, Poultry & Dairy"}

\* Month keys are written as numbers in chronological order, which is the
\* order .sort() gives the keys "2023-03", "2023-04", ...
MONTHS == <<1, 2>>
\* MOCK_DATA = generateData(): one symmetric matrix per month of MONTHS.
MockMatrix == FromRows(<<<<One, Num(3, 10)>>, <<Num(3, 10), One>>>>)
MOCK_DATA == [mo \in {MONTHS[a] : a \in DOMAIN MONTHS} |-> MockMatrix]

\* What the backend holds for a category: the first category has three
\* months, the second a single one.
BackendMatrix(category) ==
  IF category = "1. Food Staples & Grains"
    THEN FromRows(<<<<One, One>>, <<One, One>>>>)
    ELSE FromRows(<<<<One, Zero>>, <<Zero, One>>>>)
BackendData(category) ==
  [mo \in (IF category = "1. Food Staples & Grains" THEN {1, 2, 3} ELSE {1})
     |-> BackendMatrix(category)]

\* Object.keys(jsonData).sort()
RECURSIVE SortKeys(_)
SortKeys(S) ==
  IF S = {} THEN <<>>
  ELSE LET least == CHOOSE x \in S : \A y \in S : x <= y
       IN <<least>> \o SortKeys(S \ {least})

\* currentMonth = months[timeIndex] || ""; currentMatrix = data[currentMonth] || []
CurrentMatrixOf(d, ms, index) ==
  IF index + 1 \in DOMAIN ms /\ ms[index + 1] \in DOMAIN d
    THEN d[ms[index + 1]]
    ELSE <<>>

\* What the loader leaves alone: calculateCentrality and ForceGraph.
fvars == <<similarityThreshold, mounted, transform, isDragging, lastPos,
           updates, rendered, positions, frames, animationFrameId, loop,
           threw, tornDown, container, events, ticks, drag>>

LInit ==
  /\ matrix = <<>> /\ pc = "idle"
  /\ degree = <<>> /\ closeness = <<>> /\ betweenness = <<>> /\ eigenvector = <<>>
  /\ dist = <<>> /\ next = <<>> /\ k = 0 /\ iter = 0 /\ normSq = <<>>
  /\ currentMatrix = <<>> /\ similarityThreshold = Zero /\ mounted = FALSE
  /\ transform = ResetTransform /\ isDragging = FALSE /\ lastPos = <<0, 0>>
  /\ updates = 0 /\ rendered = <<>> /\ positions = <<>>
  /\ frames = {} /\ animationFrameId = 0 /\ loop = 0
  /\ threw = FALSE /\ tornDown = FALSE /\ container = ContainerSize
  /\ events = 0 /\ ticks = 0 /\ drag = <<>>
  /\ AppIdle

\* The effect of lines 1219-1252 runs: loadData() sets loading and awaits
\* fetch for the category selected at that render.
StartLoad(category) ==
  /\ started < MaxLoads
  /\ started' = started + 1
  /\ loading' = TRUE
  /\ loads' = loads \cup {[id |-> started + 1, category |-> category,
                           stage |-> "fetch"]}

\* The first render of App and its effect.
AppMount ==
  /\ started = 0
  /\ StartLoad(selectedCategory)
  /\ UNCHANGED <<view, timeIndex, isPlaying, selectedCategory, data, months,
                 currentMatrix>>
  /\ UNCHANGED <<cvars, fvars>>

\* Hero's button, disabled while loading.
onStart ==
  /\ view = "landing" /\ ~loading /\ started > 0
  /\ view' = "dashboard"
  /\ UNCHANGED <<timeIndex, isPlaying, loading, selectedCategory, data, months,
                 loads, started, currentMatrix>>
  /\ UNCHANGED <<cvars, fvars>>

\* The category select of the sidebar: a new category re-runs the effect.
setSelectedCategory(category) ==
  /\ view = "dashboard"
  /\ category # selectedCategory
  /\ selectedCategory' = category
  /\ StartLoad(category)
  /\ UNCHANGED <<view, timeIndex, isPlaying, data, months, currentMatrix>>
  /\ UNCHANGED <<cvars, fvars>>

\* setData, setMonths, setLoading(false) at the end of one loadData call.
\* The time index is not touched.
FinishLoad(l, d, ms) ==
  /\ data' = d
  /\ months' = ms
  /\ loading' = FALSE
  /\ loads' = loads \ {l}
  /\ currentMatrix' = CurrentMatrixOf(d, ms, timeIndex)
  /\ UNCHANGED <<view, timeIndex, isPlaying, selectedCategory, started>>
  /\ UNCHANGED <<cvars, fvars>>

\* (variant: the fallback only clears the loading flag)
FallbackKeepsData(l) == FinishLoad(l, data, months)
\* Fallback to Mock Data
Fallback(l) == FinishLoad(l, MOCK_DATA, MONTHS)

FetchOutcomes == {"failed", "aborted", "notok", "ok"}
\* await fetch(...) settles: it rejects (network failure, or the abort of
\* the 2-second timeout), or resolves with a response that is ok or not.
FetchSettles(l, outcome) ==
  /\ l \in loads /\ l.stage = "fetch"
  /\ IF outcome = "ok"
       THEN /\ loads' = (loads \ {l}) \cup {[l EXCEPT !.stage = "json"]}
            /\ UNCHANGED <<view, timeIndex, isPlaying, loading,
                           selectedCategory, data, months, started,
                           currentMatrix>>
            /\ UNCHANGED <<cvars, fvars>>
       ELSE Fallback(l)

JsonOutcomes == {"data", "empty", "invalid"}
\* await response.json() settles: the category's data, an empty object, or
\* a body that does not parse (the rejection is caught).
JsonSettles(l, outcome) ==
  /\ l \in loads /\ l.stage = "json"
  /\ IF outcome = "data"
       THEN FinishLoad(l, BackendData(l.category),
                       SortKeys(DOMAIN BackendData(l.category)))
       ELSE Fallback(l)

\* The time slider: min 0, max Math.max(0, months.length - 1).
setTimeIndex(index) ==
  /\ view = "dashboard"
  /\ index \in 0 .. (IF Len(months) > 0 THEN Len(months) - 1 ELSE 0)
  /\ index # timeIndex
  /\ timeIndex' = index
  /\ currentMatrix' = CurrentMatrixOf(data, months, index)
  /\ UNCHANGED <<view, isPlaying, loading, selectedCategory, data, months,
                 loads, started>>
  /\ UNCHANGED <<cvars, fvars>>

\* The play/pause button.
TogglePlay ==
  /\ view = "dashboard"
  /\ isPlaying' = ~isPlaying
  /\ UNCHANGED <<view, timeIndex, loading, selectedCategory, data, months,
                 loads, started, currentMatrix>>
  /\ UNCHANGED <<cvars, fvars>>

\* The interval of the timeline effect fires.
PlaybackTick ==
  /\ isPlaying /\ Len(months) > 0
  /\ timeIndex' = (timeIndex + 1) % Len(months)
  /\ currentMatrix' = CurrentMatrixOf(data, months, timeIndex')
  /\ UNCHANGED <<view, isPlaying, loading, selectedCategory, data, months,
                 loads, started>>
  /\ UNCHANGED <<cvars, fvars>>

LNext ==
  \/ AppMount
  \/ onStart
  \/ \E c \in Categories : setSelectedCategory(c)
  \/ \E l \in loads, o \in FetchOutcomes : FetchSettles(l, o)
  \/ \E l \in loads, o \in JsonOutcomes : JsonSettles(l, o)
  \/ \E i \in 0 .. 2 : setTimeIndex(i)
  \/ TogglePlay
  \/ PlaybackTick

SpecLoader == LInit /\ [][LNext]_vars

\* Every awaited promise of loadData settles: fetch within the 2 seconds of
\* its abort timer, response.json() once the response has arrived.
SpecLoaderFair ==
  /\ LInit /\ [][LNext]_vars
  /\ WF_vars(AppMount)
  /\ WF_vars(\E l \in loads, o \in FetchOutcomes : FetchSettles(l, o))
  /\ WF_vars(\E l \in loads, o \in JsonOutcomes : JsonSettles(l, o))

\* ------------------------------------------------------------------ C26
InFlight(id) == \E l \in loads : l.id = id
\* The step that ends the loadData call l.
Ends(l) == l \in loads /\ l \notin loads' /\ ~InFlight(l.id)'

C29_TimeIndexInRange ==
  months # <<>> =>
    /\ timeIndex < Len(months)
    /\ Length(currentMatrix) = NumCities

\* ------------------------------------------------------------------ C30
\* C30: once all loads have finished, the data and month list displayed are
\* those of the most recently selected category (the backend's for it, or
\* the mock data if its load fell back): a late response for an older
\* category never overwrites the newer one.
C30_LatestCategoryWins ==
  (started > 0 /\ loads = {}) =>
    \/ data = BackendData(selectedCategory)
         /\ months = SortKeys(DOMAIN BackendData(selectedCategory))
    \/ data = MOCK_DATA /\ months = MONTHS

====
